---------------------------- MODULE Spec2Model ----------------------------
(***************************************************************************)
(* A model of the Siemens & Halske SFM T52a simulator                      *)
(* (src/siemens_halske-t52a.py): the wheels, the wheel banks, the cipher   *)
(* engine with its per-character transform, the Baudot codec and the key   *)
(* generation.                                                             *)
(*                                                                         *)
(* Python strings of binary digits are sequences of the one-character      *)
(* strings "0", "1" and "-".  A call's outcome is a record                 *)
(* [exc, val]: exc = "none" and the returned value, or the name of the     *)
(* exception the call raised.                                              *)
(***************************************************************************)
EXTENDS Integers, Sequences, FiniteSets, TLC

VARIABLES
    key,        \* the key material: X_wheels, S_wheels, indicator
    eng,        \* the SFM_T52a instances built so far, by engine id
    steps,      \* history: per engine, how many times advance() has run
    last,       \* history: the last call, its input and its outcome
    plain,      \* stream: the units handed to encrypt() so far
    cipher,     \* stream: the units encrypt() returned so far
    decrypted,  \* stream: what decrypt() returned
    bits,       \* one swap step applied to a 5-character bit string
    text,       \* codec: the input bytes
    tty,        \* codec: the output of ascii2tty
    ascii,      \* codec: the output of tty2ascii
    kg          \* key generation: its outcome

vars == <<key, eng, steps, last, plain, cipher, decrypted, bits, text, tty, ascii, kg>>

engineVars == <<key, eng, steps, last>>
streamVars == <<plain, cipher, decrypted>>
codecVars == <<text, tty, ascii>>

-----------------------------------------------------------------------------
(* Bounds of the model *)

\* advance() runs at most this many times in one run, all engines together
MaxSteps == 6
\* the longest stream handed to encrypt()
MaxLen == 3
\* how many times one swap step is applied in a row
MaxApply == 2
\* the longest byte sequence handed to ascii2tty
MaxBytes == 3

-----------------------------------------------------------------------------
(* Python's integers and strings *)

Min(a, b) == IF a < b THEN a ELSE b

RECURSIVE Pow2(_)
Pow2(k) == IF k = 0 THEN 1 ELSE 2 * Pow2(k - 1)

\* a ^ b on non-negative integers
RECURSIVE XorNat(_, _)
XorNat(a, b) ==
    IF a = 0 THEN b
    ELSE IF b = 0 THEN a
    ELSE (((a % 2) + (b % 2)) % 2) + 2 * XorNat(a \div 2, b \div 2)

\* a ^ b on Python's integers (two's complement of unbounded width)
Xor(a, b) ==
    IF a >= 0 /\ b >= 0 THEN XorNat(a, b)
    ELSE IF a < 0 /\ b >= 0 THEN -XorNat(-a - 1, b) - 1
    ELSE IF a >= 0 /\ b < 0 THEN -XorNat(a, -b - 1) - 1
    ELSE XorNat(-a - 1, -b - 1)

\* (v >> k) & 1, for v >= 0
ShiftBit(v, k) == (v \div Pow2(k)) % 2

Digit(b) == IF b = 0 THEN "0" ELSE "1"

\* the binary digits of n >= 0, most significant first
RECURSIVE BinDigits(_)
BinDigits(n) ==
    IF n < 2 THEN <<Digit(n)>> ELSE BinDigits(n \div 2) \o <<Digit(n % 2)>>

RECURSIVE Zeros(_)
Zeros(k) == IF k <= 0 THEN <<>> ELSE <<"0">> \o Zeros(k - 1)

\* '{:05b}'.format(n): the sign, then the digits zero-padded to width 5
Format05b(n) ==
    IF n >= 0
    THEN LET d == BinDigits(n) IN Zeros(5 - Len(d)) \o d
    ELSE LET d == BinDigits(-n) IN <<"-">> \o Zeros(4 - Len(d)) \o d

\* s[a:b] for 0 <= a, 0 <= b
PySlice(s, a, b) == SubSeq(s, a + 1, Min(b, Len(s)))

\* s[::-1]
Reverse(s) == [i \in 1..Len(s) |-> s[Len(s) + 1 - i]]

IsDigits(s) == Len(s) > 0 /\ \A i \in 1..Len(s) : s[i] \in {"0", "1"}

\* the value of the first n binary digits of s
RECURSIVE DigitsValue(_, _)
DigitsValue(s, n) ==
    IF n = 0 THEN 0 ELSE 2 * DigitsValue(s, n - 1) + (IF s[n] = "1" THEN 1 ELSE 0)

Returned(v) == [exc |-> "none", val |-> v]
Raised(e) == [exc |-> e, val |-> 0]

\* int(s, 2): an optional sign, an optional "0b", then binary digits
ParseInt2(s) ==
    LET neg == Len(s) > 0 /\ s[1] = "-"
        t == IF neg THEN Tail(s) ELSE s
        u == IF Len(t) >= 2 /\ t[1] = "0" /\ t[2] = "b" THEN SubSeq(t, 3, Len(t)) ELSE t
    IN  IF IsDigits(u)
        THEN Returned(IF neg THEN -DigitsValue(u, Len(u)) ELSE DigitsValue(u, Len(u)))
        ELSE Raised("ValueError")

-----------------------------------------------------------------------------
(* class Wheel *)

Wheel(wheel_data, initial) ==
    [wheel_data |-> wheel_data, wheel_size |-> Len(wheel_data), state |-> initial]

Wheel_advance_NoWrap(w) == [w EXCEPT !.state = w.state + 1]
Wheel_advance(w) == [w EXCEPT !.state = (w.state + 1) % w.wheel_size]

\* wheel_data[state]: a negative index counts from the end of the list
Wheel_get_val(w) ==
    IF 0 <= w.state /\ w.state < Len(w.wheel_data)
    THEN Returned(w.wheel_data[w.state + 1])
    ELSE IF -Len(w.wheel_data) <= w.state /\ w.state < 0
    THEN Returned(w.wheel_data[Len(w.wheel_data) + w.state + 1])
    ELSE Raised("IndexError")

(* class WheelBank: a sequence of wheels *)

WheelBank_advance_Resized(wheels) ==
    [i \in 1..Len(wheels) |->
        LET w == Wheel_advance(wheels[i])
        IN  IF w.state = 0 THEN Wheel(Tail(w.wheel_data) \o <<Head(w.wheel_data)>>, 0) ELSE w]
WheelBank_advance(wheels) == [i \in 1..Len(wheels) |-> Wheel_advance(wheels[i])]

\* the bits of wheels[0..4], wheel 0 the least significant
WheelBank_get_val_NoFlip(wheels) ==
    IF Len(wheels) < 5 THEN Raised("IndexError")
    ELSE LET result == [i \in 1..5 |-> Wheel_get_val(wheels[i])]
         IN  IF \E i \in 1..5 : result[i].exc # "none"
             THEN Raised("IndexError")
             ELSE ParseInt2(<<"0", "b">> \o [i \in 1..5 |-> Digit(result[i].val)])
WheelBank_get_val(wheels) ==
    IF Len(wheels) < 5 THEN Raised("IndexError")
    ELSE LET result == [i \in 1..5 |-> Wheel_get_val(wheels[i])]
         IN  IF \E i \in 1..5 : result[i].exc # "none"
             THEN Raised("IndexError")
             ELSE ParseInt2(<<"0", "b">> \o [i \in 1..5 |-> Digit(result[6 - i].val)])

(* class SFM_T52a *)

NoEngine == [X_wheels |-> <<>>, S_wheels |-> <<>>, built |-> FALSE]

\* [Wheel(data, i) for data, i in zip(patterns, positions)]
ZipWheels(patterns, positions) ==
    [i \in 1..Min(Len(patterns), Len(positions)) |-> Wheel(patterns[i], positions[i])]

SFM_T52a(X, S, initial) ==
    [X_wheels |-> ZipWheels(X, PySlice(initial, 0, 5)),
     S_wheels |-> ZipWheels(S, PySlice(initial, 5, Len(initial))),
     built |-> TRUE]

SFM_advance_XOnly(e) == [e EXCEPT !.X_wheels = WheelBank_advance(e.X_wheels)]
SFM_advance(e) ==
    [e EXCEPT !.X_wheels = WheelBank_advance(e.X_wheels),
              !.S_wheels = WheelBank_advance(e.S_wheels)]

\* the five swaps of encrypt_char and decrypt_char, on the string result
Swap4_Rotate(result) == PySlice(result, 4, Len(result)) \o PySlice(result, 0, 4)
Swap4(result) == PySlice(result, 4, Len(result)) \o PySlice(result, 1, 4) \o PySlice(result, 0, 1)
Swap3_Copy(result) == PySlice(result, 0, 3) \o PySlice(result, 4, 5) \o PySlice(result, 4, 5)
Swap3(result) == PySlice(result, 0, 3) \o Reverse(PySlice(result, 3, 5))
Swap2(result) == PySlice(result, 0, 2) \o Reverse(PySlice(result, 2, 4)) \o PySlice(result, 4, Len(result))
Swap1(result) == PySlice(result, 0, 1) \o Reverse(PySlice(result, 1, 3)) \o PySlice(result, 3, Len(result))
Swap0(result) == Reverse(PySlice(result, 0, 2)) \o PySlice(result, 2, Len(result))

SwapStep(k, result) ==
    CASE k = 4 -> Swap4(result)
      [] k = 3 -> Swap3(result)
      [] k = 2 -> Swap2(result)
      [] k = 1 -> Swap1(result)
      [] k = 0 -> Swap0(result)

\* the step of bit k, taken when that bit of the S-bank value is set
CondSwap_Inverted(s, k, result) == IF ShiftBit(s, k) = 0 THEN SwapStep(k, result) ELSE result
CondSwap(s, k, result) == IF ShiftBit(s, k) = 1 THEN SwapStep(k, result) ELSE result

\* encrypt_char's "Swap operation": bit 4 first, bit 0 last
SwapOperation_Bit0First(s, result) ==
    CondSwap(s, 4, CondSwap(s, 3, CondSwap(s, 2, CondSwap(s, 1, CondSwap(s, 0, result)))))
SwapOperation(s, result) ==
    CondSwap(s, 0, CondSwap(s, 1, CondSwap(s, 2, CondSwap(s, 3, CondSwap(s, 4, result)))))

\* decrypt_char's "Reverse swap operation": bit 0 first, bit 4 last
ReverseSwapOperation_SameOrder(s, result) ==
    CondSwap(s, 0, CondSwap(s, 1, CondSwap(s, 2, CondSwap(s, 3, CondSwap(s, 4, result)))))
ReverseSwapOperation(s, result) ==
    CondSwap(s, 4, CondSwap(s, 3, CondSwap(s, 2, CondSwap(s, 1, CondSwap(s, 0, result)))))

\* what a call leaves behind: the engine, the call's outcome, and whether
\* advance() ran
encrypt_char(e, c) ==
    LET x == WheelBank_get_val(e.X_wheels)
        s == WheelBank_get_val(e.S_wheels)
    IN  IF x.exc # "none" THEN [eng |-> e, ret |-> x, adv |-> FALSE]
        ELSE IF s.exc # "none" THEN [eng |-> e, ret |-> s, adv |-> FALSE]
        ELSE LET result == SwapOperation(s.val, Format05b(Xor(c, x.val)))
             IN  [eng |-> SFM_advance(e), ret |-> ParseInt2(result), adv |-> TRUE]

decrypt_char(e, c) ==
    LET x == WheelBank_get_val(e.X_wheels)
        s == WheelBank_get_val(e.S_wheels)
    IN  IF s.exc # "none" THEN [eng |-> e, ret |-> s, adv |-> FALSE]
        ELSE LET result == ParseInt2(ReverseSwapOperation(s.val, Format05b(c)))
             IN  IF result.exc # "none" THEN [eng |-> e, ret |-> result, adv |-> FALSE]
                 ELSE IF x.exc # "none" THEN [eng |-> e, ret |-> x, adv |-> FALSE]
                 ELSE [eng |-> SFM_advance(e), ret |-> Returned(Xor(result.val, x.val)), adv |-> TRUE]

-----------------------------------------------------------------------------
(* Key material: what a key file sets (X_wheels, S_wheels, indicator) *)

KeyMaterial(X, S, initial) == [X_wheels |-> X, S_wheels |-> S, indicator |-> initial]

\* X banks: one of mixed lengths (period 6), one of period 2
XBanks ==
    { << <<1, 0>>, <<0, 1, 1>>, <<1>>, <<0, 1>>, <<1, 0, 0>> >>,
      << <<0, 1>>, <<1, 1>>, <<1, 0>>, <<0, 0>>, <<1, 0>> >> }

\* S banks: one of period 3, one of mixed lengths (period 6), one whose
\* value is always 0
SBanks ==
    { << <<0, 1, 0>>, <<1, 1, 0>>, <<0, 0, 1>>, <<1, 0, 1>>, <<0, 0, 0>> >>,
      << <<0, 1>>, <<0, 0, 1>>, <<1, 0>>, <<0>>, <<1, 1, 0>> >>,
      << <<0, 0>>, <<0>>, <<0, 0, 0>>, <<0>>, <<0>> >> }

\* the lengths of ten patterns, X wheels first
Lengths(X, S) == [i \in 1..(Len(X) + Len(S)) |-> IF i <= Len(X) THEN Len(X[i]) ELSE Len(S[i - Len(X)])]

\* two in-range indicators for ten wheels of the given lengths
Indicators(lens) ==
    { [i \in 1..Len(lens) |-> 0],
      [i \in 1..Len(lens) |-> i % lens[i]] }

ValidKeys ==
    UNION { { KeyMaterial(b[1], b[2], i) : i \in Indicators(Lengths(b[1], b[2])) } :
            b \in XBanks \X SBanks }

BaseX == << <<1, 0>>, <<0, 1, 1>>, <<1>>, <<0, 1>>, <<1, 0, 0>> >>
BaseS == << <<0, 1, 0>>, <<1>>, <<0, 0, 1>>, <<1, 0, 1>>, <<0>> >>
Zero10 == [i \in 1..10 |-> 0]

\* key files whose structure is wrong: a bank without 5 patterns, an
\* indicator without 10 entries, an entry outside [0, length)
InvalidKeys ==
    { KeyMaterial(SubSeq(BaseX, 1, 4), BaseS, Zero10),
      KeyMaterial(BaseX \o << <<1>> >>, BaseS, Zero10),
      KeyMaterial(BaseX, SubSeq(BaseS, 1, 4), Zero10),
      KeyMaterial(BaseX, BaseS, SubSeq(Zero10, 1, 9)),
      KeyMaterial(BaseX, BaseS, Zero10 \o <<0>>),
      KeyMaterial(BaseX, BaseS, [Zero10 EXCEPT ![2] = 3]),
      KeyMaterial(BaseX, BaseS, [Zero10 EXCEPT ![1] = -1]),
      KeyMaterial(BaseX, BaseS, [Zero10 EXCEPT ![8] = 5]) }

\* the structure section 3 of the specification asks of key material
IsValidKey(k) ==
    /\ Len(k.X_wheels) = 5
    /\ Len(k.S_wheels) = 5
    /\ Len(k.indicator) = 10
    /\ \A i \in 1..5 : k.indicator[i] >= 0 /\ k.indicator[i] < Len(k.X_wheels[i])
    /\ \A i \in 1..5 : k.indicator[i + 5] >= 0 /\ k.indicator[i + 5] < Len(k.S_wheels[i])

\* five wheels of one tooth each, whose bank value is v whatever the position
ConstBank(v) == [i \in 1..5 |-> <<ShiftBit(v, i - 1)>>]

ConstKeys == { KeyMaterial(ConstBank(x), ConstBank(s), Zero10) : x \in 0..31, s \in 0..31 }

-----------------------------------------------------------------------------
(* The engines of one run, and the calls made on them *)

EngineIds == {1, 2}

\* the units handed to encrypt_char and decrypt_char: 5-bit ones and others
CharInputs == {-1, 0, 22, 31, 32}

NoCall == [op |-> "none", e |-> 0, c |-> 0, ret |-> Returned(0), x |-> -1, s |-> -1]

\* the bank value a call read, or -1 when reading it raised
ReadVal(wheels) == LET v == WheelBank_get_val(wheels) IN IF v.exc = "none" THEN v.val ELSE -1

Call(op, e, c, r) ==
    [op |-> op, e |-> e, c |-> c, ret |-> r.ret,
     x |-> ReadVal(eng[e].X_wheels), s |-> ReadVal(eng[e].S_wheels)]

\* self: the call changes the wheels of the engine it is made on
StoreAliased(e, new) == [f \in EngineIds |-> IF eng[f].built THEN new ELSE eng[f]]
StoreSelf(e, new) == [eng EXCEPT ![e] = new]

IdleStream == plain = <<>> /\ cipher = <<>> /\ decrypted = [done |-> FALSE, out |-> <<>>]
IdleBits == bits = [orig |-> <<>>, cur |-> <<>>, k |-> -1, times |-> 0]
IdleCodec ==
    /\ text = <<>>
    /\ tty = [done |-> FALSE, out |-> <<>>]
    /\ ascii = [done |-> FALSE, out |-> <<>>]
NoKeygen ==
    [done |-> FALSE, exc |-> "none", Wheel_Size |-> <<>>, X_sizes |-> <<>>, S_sizes |-> <<>>,
     X_wheels |-> <<>>, S_wheels |-> <<>>, indicator |-> <<>>, left |-> 0]
IdleKeygen == kg = NoKeygen

TotalSteps == steps[1] + steps[2]

\* a key file has been read; no engine is built yet
Init ==
    /\ key \in ValidKeys \cup InvalidKeys
    /\ eng = [e \in EngineIds |-> NoEngine]
    /\ steps = [e \in EngineIds |-> 0]
    /\ last = NoCall
    /\ IdleStream /\ IdleBits /\ IdleCodec /\ IdleKeygen

\* cipher = SFM_T52a(X_wheels, S_wheels, indicator)
Construct(e) ==
    /\ ~eng[e].built
    /\ eng' = [eng EXCEPT ![e] = SFM_T52a(key.X_wheels, key.S_wheels, key.indicator)]
    /\ last' = [NoCall EXCEPT !.op = "init", !.e = e]
    /\ UNCHANGED <<key, steps, plain, cipher, decrypted, bits, text, tty, ascii, kg>>

\* the engine's side of one call of encrypt_char or decrypt_char
CharCall(op, e, c, r) ==
    /\ eng' = StoreSelf(e, r.eng)
    /\ steps' = [steps EXCEPT ![e] = IF r.adv THEN @ + 1 ELSE @]
    /\ last' = Call(op, e, c, r)

EncryptChar(e, c) ==
    /\ eng[e].built
    /\ TotalSteps < MaxSteps
    /\ \E r \in {encrypt_char(eng[e], c)} : CharCall("encrypt_char", e, c, r)
    /\ UNCHANGED <<key, plain, cipher, decrypted, bits, text, tty, ascii, kg>>

DecryptChar(e, c) ==
    /\ eng[e].built
    /\ TotalSteps < MaxSteps
    /\ \E r \in {decrypt_char(eng[e], c)} : CharCall("decrypt_char", e, c, r)
    /\ UNCHANGED <<key, plain, cipher, decrypted, bits, text, tty, ascii, kg>>

Next ==
    \E e \in EngineIds :
        \/ Construct(e)
        \/ \E c \in CharInputs : EncryptChar(e, c)
        \/ \E c \in CharInputs : DecryptChar(e, c)

Spec == Init /\ [][Next]_vars

-----------------------------------------------------------------------------
(* One unit through encrypt_char on one engine, and the result through     *)
(* decrypt_char on a second engine built from the same key, for every      *)
(* value of the two banks (wheels of one tooth) and for the keys whose      *)
(* wheels move.                                                            *)

UnitInputs == (0..31) \cup {-1, 32, 45}

BothBuilt == [e \in EngineIds |-> SFM_T52a(key.X_wheels, key.S_wheels, key.indicator)]

InitUnit ==
    /\ key \in ConstKeys \cup ValidKeys
    /\ eng = BothBuilt
    /\ steps = [e \in EngineIds |-> 0]
    /\ last = NoCall
    /\ IdleStream /\ IdleBits /\ IdleCodec /\ IdleKeygen

UnitEncrypt(c) ==
    /\ last.op = "none"
    /\ \E r \in {encrypt_char(eng[1], c)} :
           /\ CharCall("encrypt_char", 1, c, r)
           /\ plain' = <<c>>
           /\ cipher' = IF r.ret.exc = "none" THEN <<r.ret.val>> ELSE <<>>
    /\ UNCHANGED <<key, decrypted, bits, text, tty, ascii, kg>>

UnitDecrypt ==
    /\ last.op = "encrypt_char"
    /\ Len(cipher) = 1
    /\ \E r \in {decrypt_char(eng[2], cipher[1])} :
           /\ CharCall("decrypt_char", 2, cipher[1], r)
           /\ decrypted' = [done |-> TRUE, out |-> IF r.ret.exc = "none" THEN <<r.ret.val>> ELSE <<>>]
    /\ UNCHANGED <<key, plain, cipher, bits, text, tty, ascii, kg>>

NextUnit == (\E c \in UnitInputs : UnitEncrypt(c)) \/ UnitDecrypt

SpecUnit == InitUnit /\ [][NextUnit]_vars

-----------------------------------------------------------------------------
(* Streams: encrypt() on engine 1, decrypt() on engine 2 *)

\* the code points of the strings handed to encrypt()
StreamUnits == {0, 13, 22, 31, 40}

RECURSIVE Strings(_, _)
Strings(alphabet, n) ==
    IF n = 0 THEN {<<>>}
    ELSE LET shorter == Strings(alphabet, n - 1)
         IN  shorter \cup { Append(m, a) : m \in { t \in shorter : Len(t) = n - 1 }, a \in alphabet }

\* ''.join([chr(self.encrypt_char(ord(c))) for c in m]): the engine it leaves,
\* the string it returns, how many units it took, and the exception if any
RECURSIVE encrypt_NoThread(_, _)
encrypt_NoThread(e, m) ==
    IF m = <<>> THEN [eng |-> e, out |-> <<>>, n |-> 0, exc |-> "none"]
    ELSE LET r == encrypt_char(e, Head(m))
             rest == encrypt_NoThread(e, Tail(m))
         IN  [eng |-> r.eng,
              out |-> IF r.ret.exc = "none" THEN <<r.ret.val>> \o rest.out ELSE <<>>,
              n |-> IF r.adv THEN 1 ELSE 0,
              exc |-> r.ret.exc]
RECURSIVE encrypt(_, _)
encrypt(e, m) ==
    IF m = <<>> THEN [eng |-> e, out |-> <<>>, n |-> 0, exc |-> "none"]
    ELSE LET r == encrypt_char(e, Head(m))
         IN  IF r.ret.exc # "none"
             THEN [eng |-> r.eng, out |-> <<>>, n |-> IF r.adv THEN 1 ELSE 0, exc |-> r.ret.exc]
             ELSE IF r.ret.val < 0
             THEN [eng |-> r.eng, out |-> <<>>, n |-> 1, exc |-> "ValueError"]
             ELSE LET rest == encrypt(r.eng, Tail(m))
                  IN  [eng |-> rest.eng,
                       out |-> IF rest.exc = "none" THEN <<r.ret.val>> \o rest.out ELSE <<>>,
                       n |-> 1 + rest.n,
                       exc |-> rest.exc]

RECURSIVE decrypt(_, _)
decrypt(e, m) ==
    IF m = <<>> THEN [eng |-> e, out |-> <<>>, n |-> 0, exc |-> "none"]
    ELSE LET r == decrypt_char(e, Head(m))
         IN  IF r.ret.exc # "none"
             THEN [eng |-> r.eng, out |-> <<>>, n |-> 0, exc |-> r.ret.exc]
             ELSE IF r.ret.val < 0
             THEN [eng |-> r.eng, out |-> <<>>, n |-> 1, exc |-> "ValueError"]
             ELSE LET rest == decrypt(r.eng, Tail(m))
                  IN  [eng |-> rest.eng,
                       out |-> IF rest.exc = "none" THEN <<r.ret.val>> \o rest.out ELSE <<>>,
                       n |-> 1 + rest.n,
                       exc |-> rest.exc]

StreamCall(op, e, r) ==
    /\ eng' = StoreSelf(e, r.eng)
    /\ steps' = [steps EXCEPT ![e] = @ + r.n]
    /\ last' = [NoCall EXCEPT !.op = op, !.e = e,
                              !.ret = IF r.exc = "none" THEN Returned(Len(r.out)) ELSE Raised(r.exc)]

InitStream ==
    /\ key \in ValidKeys
    /\ eng = BothBuilt
    /\ steps = [e \in EngineIds |-> 0]
    /\ last = NoCall
    /\ IdleStream /\ IdleBits /\ IdleCodec /\ IdleKeygen

\* ciphertext = cipher.encrypt(m), on engine 1
Encrypt(m) ==
    /\ ~decrypted.done
    /\ Len(plain) + Len(m) <= MaxLen
    /\ \E r \in {encrypt(eng[1], m)} :
           /\ StreamCall("encrypt", 1, r)
           /\ plain' = plain \o m
           /\ cipher' = cipher \o r.out
    /\ UNCHANGED <<key, decrypted, bits, text, tty, ascii, kg>>

\* plaintext_stream = cipher.decrypt(ciphertext), on engine 2, still fresh
Decrypt ==
    /\ ~decrypted.done
    /\ \E r \in {decrypt(eng[2], cipher)} :
           /\ StreamCall("decrypt", 2, r)
           /\ decrypted' = [done |-> TRUE, out |-> r.out]
    /\ UNCHANGED <<key, plain, cipher, bits, text, tty, ascii, kg>>

NextStream == (\E m \in Strings(StreamUnits, MaxLen) : Encrypt(m)) \/ Decrypt

SpecStream == InitStream /\ [][NextStream]_vars

-----------------------------------------------------------------------------
(* One swap step on its own, its condition true, applied again and again   *)

NoKey == KeyMaterial(<<>>, <<>>, <<>>)

IdleEngines ==
    /\ key = NoKey
    /\ eng = [e \in EngineIds |-> NoEngine]
    /\ steps = [e \in EngineIds |-> 0]
    /\ last = NoCall

InitSwap ==
    /\ \E v \in 0..31 : bits = [orig |-> Format05b(v), cur |-> Format05b(v), k |-> -1, times |-> 0]
    /\ IdleEngines /\ IdleStream /\ IdleCodec /\ IdleKeygen

\* the step of bit k of s, s having that bit set
ApplySwap(k, s) ==
    /\ ShiftBit(s, k) = 1
    /\ bits.k \in {-1, k}
    /\ bits.times < MaxApply
    /\ bits' = [bits EXCEPT !.cur = CondSwap(s, k, @), !.k = k, !.times = @ + 1]
    /\ UNCHANGED <<key, eng, steps, last, plain, cipher, decrypted, text, tty, ascii, kg>>

NextSwap == \E k \in 0..4, s \in 0..31 : ApplySwap(k, s)

SpecSwap == InitSwap /\ [][NextSwap]_vars

-----------------------------------------------------------------------------
(* The banks of two engines read by get_val() and moved by advance()       *)

\* the keys of the engines: those whose wheels move, those whose structure
\* is wrong, and one-tooth wheels giving a bank each value 0..31
BankKeys ==
    ValidKeys \cup InvalidKeys
        \cup { KeyMaterial(ConstBank(v), ConstBank(31 - v), Zero10) : v \in 0..31 }

InitBank ==
    /\ key \in BankKeys
    /\ eng = BothBuilt
    /\ steps = [e \in EngineIds |-> 0]
    /\ last = NoCall
    /\ IdleStream /\ IdleBits /\ IdleCodec /\ IdleKeygen

\* cipher.advance()
Advance(e) ==
    /\ TotalSteps < MaxSteps
    /\ eng' = StoreSelf(e, SFM_advance(eng[e]))
    /\ steps' = [steps EXCEPT ![e] = @ + 1]
    /\ last' = [NoCall EXCEPT !.op = "advance", !.e = e]
    /\ UNCHANGED <<key, plain, cipher, decrypted, bits, text, tty, ascii, kg>>

\* cipher.X_wheels.get_val(), cipher.S_wheels.get_val(): no wheel is assigned
GetVal(e, bank) ==
    /\ last' = [NoCall EXCEPT !.op = bank, !.e = e,
                              !.ret = IF bank = "X_wheels.get_val"
                                      THEN WheelBank_get_val(eng[e].X_wheels)
                                      ELSE WheelBank_get_val(eng[e].S_wheels)]
    /\ UNCHANGED <<key, eng, steps, plain, cipher, decrypted, bits, text, tty, ascii, kg>>

NextBank ==
    \E e \in EngineIds :
        \/ Advance(e)
        \/ \E bank \in {"X_wheels.get_val", "S_wheels.get_val"} : GetVal(e, bank)

SpecBank == InitBank /\ [][NextBank]_vars

-----------------------------------------------------------------------------
(* ASCII/TTY coding conversion *)

\* invalid character mapping
INVC == 255
\* figures required flag
FIGS_F == 128
\* valid in either shift
ETHR_F == 64
\* letters shift character
LTRS == 31
\* figures shift character
FIGS == 27
\* mask off 5 LSBs
MSX5 == 31
\* mask off 7 LSBs
MSX7 == 127

\* a & b on non-negative integers
RECURSIVE BitAnd(_, _)
BitAnd(a, b) ==
    IF a = 0 \/ b = 0 THEN 0
    ELSE ((a % 2) * (b % 2)) + 2 * BitAnd(a \div 2, b \div 2)

\* by ASCII code 0..127, at index code + 1
asc2tty ==
    <<
        64, 255, 255, 255, 255, 255, 255, 154, 255, 255,  72, 255, 255,  66, 255, 255,
       255, 255, 255, 255, 255, 255, 255, 255, 255, 255, 255, 255, 255, 255, 255, 255,
        68, 255, 255, 255, 146, 255, 255, 148, 158, 137, 255, 145, 134, 152, 135, 151,
       141, 157, 153, 144, 138, 129, 149, 156, 140, 131, 142, 255, 158, 143, 137, 147,
       255,  24,  19,  14,  18,  16,  22,  11,   5,  12,  26,  30,   9,   7,   6,   3,
        13,  29,  10,  20,   1,  28,  15,  25,  23,  21,  17, 158, 255, 137, 255, 255,
       255,  24,  19,  14,  18,  16,  22,  11,   5,  12,  26,  30,   9,   7,   6,   3,
        13,  29,  10,  20,   1,  28,  15,  25,  23,  21,  17, 158, 255, 137, 154, 255 >>

tty_ltrs2asc ==
    <<
         0,  84,  13,  79,  32,  72,  78,  77,
        10,  76,  82,  71,  73,  80,  67,  86,
        69,  90,  68,  66,  83,  89,  70,  88,
        65,  87,  74,  27,  85,  81,  75,  31 >>

tty_figs2asc ==
    <<
         0,  53,  13,  57,  32,  38,  44,  46,
        10,  41,  52,  38,  56,  48,  58,  61,
        51,  43,  36,  63,  39,  54,  38,  47,
        45,  50,   7,  27,  55,  49,  40,  31 >>

\* the shift ascii2tty emits before the loop, and the flag it leaves
InitialShift_AssumeFigs(s) ==
    IF Len(s) > 0
    THEN LET char == asc2tty[BitAnd(s[1], MSX7) + 1]
         IN  IF BitAnd(char, ETHR_F) # 0 THEN [result |-> <<>>, figs |-> TRUE]
             ELSE IF BitAnd(char, FIGS_F) # 0 THEN [result |-> <<FIGS>>, figs |-> TRUE]
             ELSE [result |-> <<LTRS>>, figs |-> FALSE]
    ELSE [result |-> <<>>, figs |-> FALSE]
InitialShift(s) ==
    IF Len(s) > 0
    THEN LET char == asc2tty[BitAnd(s[1], MSX7) + 1]
         IN  IF BitAnd(char, ETHR_F) # 0 THEN [result |-> <<>>, figs |-> FALSE]
             ELSE IF BitAnd(char, FIGS_F) # 0 THEN [result |-> <<FIGS>>, figs |-> TRUE]
             ELSE [result |-> <<LTRS>>, figs |-> FALSE]
    ELSE [result |-> <<>>, figs |-> FALSE]

\* one turn of ascii2tty's loop "for char in s"
ConvertChar_NoFlagUpdate(st, byte) ==
    LET char == asc2tty[BitAnd(byte, MSX7) + 1]
    IN  IF char = INVC THEN st
        ELSE IF BitAnd(char, ETHR_F) # 0
        THEN [st EXCEPT !.result = Append(@, BitAnd(char, MSX5))]
        ELSE IF BitAnd(char, FIGS_F) # 0
        THEN IF st.figs # TRUE
             THEN [result |-> st.result \o <<FIGS, BitAnd(char, MSX5)>>, figs |-> st.figs]
             ELSE [st EXCEPT !.result = Append(@, BitAnd(char, MSX5))]
        ELSE IF st.figs # FALSE
        THEN [result |-> st.result \o <<LTRS, BitAnd(char, MSX5)>>, figs |-> FALSE]
        ELSE [st EXCEPT !.result = Append(@, BitAnd(char, MSX5))]
ConvertChar(st, byte) ==
    LET char == asc2tty[BitAnd(byte, MSX7) + 1]
    IN  IF char = INVC THEN st
        ELSE IF BitAnd(char, ETHR_F) # 0
        THEN [st EXCEPT !.result = Append(@, BitAnd(char, MSX5))]
        ELSE IF BitAnd(char, FIGS_F) # 0
        THEN IF st.figs # TRUE
             THEN [result |-> st.result \o <<FIGS, BitAnd(char, MSX5)>>, figs |-> TRUE]
             ELSE [st EXCEPT !.result = Append(@, BitAnd(char, MSX5))]
        ELSE IF st.figs # FALSE
        THEN [result |-> st.result \o <<LTRS, BitAnd(char, MSX5)>>, figs |-> FALSE]
        ELSE [st EXCEPT !.result = Append(@, BitAnd(char, MSX5))]

RECURSIVE ConvertFrom(_, _, _)
ConvertFrom(s, i, st) ==
    IF i > Len(s) THEN st ELSE ConvertFrom(s, i + 1, ConvertChar(st, s[i]))

\* s: a list of byte values; the result: the 5-bit units
ascii2tty(s) == ConvertFrom(s, 1, InitialShift(s)).result

\* one turn of tty2ascii's loop "for char in s"
ReadChar_FigsForOne(st, unit) ==
    LET char == BitAnd(unit, MSX5)
    IN  IF char = LTRS THEN [st EXCEPT !.figs = FALSE]
        ELSE IF char = FIGS THEN [st EXCEPT !.figs = TRUE]
        ELSE IF st.figs
        THEN [result |-> Append(st.result, tty_figs2asc[char + 1]), figs |-> FALSE]
        ELSE [st EXCEPT !.result = Append(@, tty_ltrs2asc[char + 1])]
ReadChar(st, unit) ==
    LET char == BitAnd(unit, MSX5)
    IN  IF char = LTRS THEN [st EXCEPT !.figs = FALSE]
        ELSE IF char = FIGS THEN [st EXCEPT !.figs = TRUE]
        ELSE IF st.figs
        THEN [st EXCEPT !.result = Append(@, tty_figs2asc[char + 1])]
        ELSE [st EXCEPT !.result = Append(@, tty_ltrs2asc[char + 1])]

RECURSIVE ReadFrom(_, _, _)
ReadFrom(s, i, st) ==
    IF i > Len(s) THEN st ELSE ReadFrom(s, i + 1, ReadChar(st, s[i]))

\* s: the code points of a string; the result: the ASCII codes
tty2ascii(s) == ReadFrom(s, 1, [result |-> <<>>, figs |-> FALSE]).result

\* the bytes the longer inputs are made of: unmappable, valid in either
\* shift, letters in both cases, figures, and a byte with its top bit set
CodecAlphabet == {1, 10, 32, 53, 60, 65, 97, 126, 193}

CodecInputs == Strings(CodecAlphabet, MaxBytes) \cup { <<b>> : b \in 0..255 }

InitCodec ==
    /\ text \in CodecInputs
    /\ tty = [done |-> FALSE, out |-> <<>>]
    /\ ascii = [done |-> FALSE, out |-> <<>>]
    /\ IdleEngines /\ IdleStream /\ IdleBits /\ IdleKeygen

\* input_baudot = ascii2tty(input_ascii)
Ascii2tty ==
    /\ ~tty.done
    /\ tty' = [done |-> TRUE, out |-> ascii2tty(text)]
    /\ UNCHANGED <<key, eng, steps, last, plain, cipher, decrypted, bits, text, ascii, kg>>

\* plaintext_ascii = tty2ascii(plaintext_stream)
Tty2ascii ==
    /\ tty.done
    /\ ~ascii.done
    /\ ascii' = [done |-> TRUE, out |-> tty2ascii(tty.out)]
    /\ UNCHANGED <<key, eng, steps, last, plain, cipher, decrypted, bits, text, tty, kg>>

NextCodec == Ascii2tty \/ Tty2ascii

SpecCodec == InitCodec /\ [][NextCodec]_vars

-----------------------------------------------------------------------------
(* The 'readtape' command: tty2ascii on a tape of any units *)

\* the code points the longer tapes are made of: data units, the two shift
\* units, and a code point above 31
TapeUnits == {0, 1, 24, FIGS, LTRS, 59}

\* the tapes: the longer ones, and every unit 0..31 read in letters and in
\* figures
Tapes ==
    Strings(TapeUnits, MaxBytes) \cup { <<u>> : u \in 0..31 } \cup { <<FIGS, u>> : u \in 0..31 }

\* tty_stream = f_in.read()
InitTape ==
    /\ text = <<>>
    /\ \E s \in Tapes : tty = [done |-> FALSE, out |-> s]
    /\ ascii = [done |-> FALSE, out |-> <<>>]
    /\ IdleEngines /\ IdleStream /\ IdleBits /\ IdleKeygen

\* print(tty2ascii(tty_stream))
Readtape ==
    /\ ~ascii.done
    /\ ascii' = [done |-> TRUE, out |-> tty2ascii(tty.out)]
    /\ UNCHANGED <<key, eng, steps, last, plain, cipher, decrypted, bits, text, tty, kg>>

NextTape == Readtape

SpecTape == InitTape /\ [][NextTape]_vars

-----------------------------------------------------------------------------
(* Key generation: the 'keygen' command *)

Wheel_Size == <<73, 71, 69, 67, 65, 64, 61, 59, 53, 47>>

\* how many bits getrandbits is asked for
RandomBits == 700
\* the width of the draw an indicator is reduced from
IndicatorBits == 7

\* x[i], x[j] = x[j], x[i], on 0-based positions
SwapItems(x, i, j) == [x EXCEPT ![i + 1] = x[j + 1], ![j + 1] = x[i + 1]]

\* random.shuffle(x): for i from len(x) - 1 down to 1, x[i] changes place
\* with x[j], j drawn from 0..i; draws[i] is that draw
RECURSIVE shuffle(_, _, _)
shuffle(x, i, draws) ==
    IF i < 1 THEN x ELSE shuffle(SwapItems(x, i, draws[i]), i - 1, draws)

\* the draws of one shuffle that the model lets the random source make
ShuffleDraws == { [i \in 1..9 |-> (a * (i \div 2) + b) % (i + 1)] : a \in 0..2, b \in 0..3 }

\* the outcomes of getrandbits(700) that the model lets it have, as the
\* string '{:0700b}' makes of them
RandomBufs ==
    { [i \in 1..RandomBits |-> "0"],
      [i \in 1..RandomBits |-> "1"],
      [i \in 1..RandomBits |-> Digit(i % 2)],
      [i \in 1..RandomBits |-> Digit(((i * i) \div 7) % 2)] }

\* for i in range(5): X_sizes.append(Wheel_Size.pop()); S_sizes.append(Wheel_Size.pop())
RECURSIVE SplitSizes_OnePop(_, _)
SplitSizes_OnePop(st, i) ==
    IF i = 0 THEN st
    ELSE LET n == Len(st.Wheel_Size)
         IN  SplitSizes_OnePop([Wheel_Size |-> SubSeq(st.Wheel_Size, 1, n - 1),
                                X_sizes |-> Append(st.X_sizes, st.Wheel_Size[n]),
                                S_sizes |-> Append(st.S_sizes, st.Wheel_Size[n])], i - 1)
RECURSIVE SplitSizes(_, _)
SplitSizes(st, i) ==
    IF i = 0 THEN st
    ELSE LET n == Len(st.Wheel_Size)
         IN  SplitSizes([Wheel_Size |-> SubSeq(st.Wheel_Size, 1, n - 2),
                         X_sizes |-> Append(st.X_sizes, st.Wheel_Size[n]),
                         S_sizes |-> Append(st.S_sizes, st.Wheel_Size[n - 1])], i - 1)

\* list(map(int, list(s)))
Ints(s) == [i \in 1..Len(s) |-> IF s[i] = "1" THEN 1 ELSE 0]

\* one bank's loop "for i in range(5)": the patterns and the indicators cut
\* from the front of the random buffer
RECURSIVE FillBank_WideDraw(_, _, _)
FillBank_WideDraw(st, sizes, i) ==
    IF i > Len(sizes) \/ st.exc # "none" THEN st
    ELSE LET wheel == Ints(PySlice(st.buf, 0, sizes[i]))
             buf1 == PySlice(st.buf, sizes[i], Len(st.buf))
             draw == ParseInt2(PySlice(buf1, 0, IndicatorBits + 1))
         IN  IF draw.exc # "none" THEN [st EXCEPT !.exc = draw.exc]
             ELSE FillBank_WideDraw([buf |-> PySlice(buf1, IndicatorBits + 1, Len(buf1)),
                                     wheels |-> Append(st.wheels, wheel),
                                     indicator |-> Append(st.indicator, draw.val % sizes[i]),
                                     exc |-> "none"], sizes, i + 1)
RECURSIVE FillBank(_, _, _)
FillBank(st, sizes, i) ==
    IF i > Len(sizes) \/ st.exc # "none" THEN st
    ELSE LET wheel == Ints(PySlice(st.buf, 0, sizes[i]))
             buf1 == PySlice(st.buf, sizes[i], Len(st.buf))
             draw == ParseInt2(PySlice(buf1, 0, IndicatorBits))
         IN  IF draw.exc # "none" THEN [st EXCEPT !.exc = draw.exc]
             ELSE FillBank([buf |-> PySlice(buf1, IndicatorBits, Len(buf1)),
                            wheels |-> Append(st.wheels, wheel),
                            indicator |-> Append(st.indicator, draw.val % sizes[i]),
                            exc |-> "none"], sizes, i + 1)

\* the whole command, for three shuffles' draws and one random buffer
keygen(d1, d2, d3, randombuf) ==
    LET shuffled == shuffle(shuffle(shuffle(Wheel_Size, 9, d1), 9, d2), 9, d3)
        sizes == SplitSizes([Wheel_Size |-> shuffled, X_sizes |-> <<>>, S_sizes |-> <<>>], 5)
        x == FillBank([buf |-> randombuf, wheels |-> <<>>, indicator |-> <<>>, exc |-> "none"],
                      sizes.X_sizes, 1)
        s == FillBank([buf |-> x.buf, wheels |-> <<>>, indicator |-> x.indicator, exc |-> x.exc],
                      sizes.S_sizes, 1)
    IN  [done |-> TRUE, exc |-> s.exc, Wheel_Size |-> sizes.Wheel_Size,
         X_sizes |-> sizes.X_sizes, S_sizes |-> sizes.S_sizes,
         X_wheels |-> x.wheels, S_wheels |-> s.wheels, indicator |-> s.indicator,
         left |-> Len(s.buf)]

InitKeygen ==
    /\ IdleKeygen
    /\ IdleEngines /\ IdleStream /\ IdleBits /\ IdleCodec

Keygen ==
    /\ ~kg.done
    /\ \E d1 \in ShuffleDraws, d2 \in ShuffleDraws, d3 \in ShuffleDraws, randombuf \in RandomBufs :
           kg' = keygen(d1, d2, d3, randombuf)
    /\ UNCHANGED <<key, eng, steps, last, plain, cipher, decrypted, bits, text, tty, ascii>>

NextKeygen == Keygen

SpecKeygen == InitKeygen /\ [][NextKeygen]_vars

-----------------------------------------------------------------------------
(* What the claims are stated with *)

InRange(m) == \A i \in 1..Len(m) : m[i] \in 0..31

\* a XOR b of two 5-bit values, bit by bit
BitXor5(a, b) ==
    LET bit(k) == IF ShiftBit(a, k) = ShiftBit(b, k) THEN 0 ELSE 1
    IN  bit(0) + 2 * bit(1) + 4 * bit(2) + 8 * bit(3) + 16 * bit(4)

RECURSIVE Gcd(_, _)
Gcd(a, b) == IF b = 0 THEN a ELSE Gcd(b, a % b)

Lcm(a, b) == (a * b) \div Gcd(a, b)

\* the least common multiple of the lengths of the first n patterns
RECURSIVE LcmLengths(_, _)
LcmLengths(patterns, n) ==
    IF n = 0 THEN 1 ELSE Lcm(LcmLengths(patterns, n - 1), Len(patterns[n]))

PeriodX == LcmLengths(key.X_wheels, Len(key.X_wheels))
PeriodS == LcmLengths(key.S_wheels, Len(key.S_wheels))
PeriodAll == Lcm(PeriodX, PeriodS)

\* the positions of a bank's wheels
Positions(wheels) == [i \in 1..Len(wheels) |-> wheels[i].state]

AtStartX(e) == Positions(eng[e].X_wheels) = SubSeq(key.indicator, 1, 5)
AtStartS(e) == Positions(eng[e].S_wheels) = SubSeq(key.indicator, 6, 10)

\* the byte is one the 128-entry table maps (looked up by its low 7 bits)
Mapped(b) == asc2tty[(b % 128) + 1] # INVC

\* Python's upper() on one ASCII byte
Upper(b) == IF b \in 97..122 THEN b - 32 ELSE b

\* f(b mod 128) for the mapped bytes b among the first n of s, in order
RECURSIVE MapMapped(_, _, _)
MapMapped(f, s, n) ==
    IF n = 0 THEN <<>>
    ELSE IF Mapped(s[n]) THEN Append(MapMapped(f, s, n - 1), f[s[n] % 128])
    ELSE MapMapped(f, s, n - 1)

\* what a mapped byte comes back as: its uppercase, except that "<", "[",
\* "{" come back as "(", that ">", "]", "}" come back as ")", and that "~"
\* comes back as BEL (7)
Canonical(b) ==
    IF b \in {60, 91, 123} THEN 40
    ELSE IF b \in {62, 93, 125} THEN 41
    ELSE IF b = 126 THEN 7
    ELSE Upper(b)

\* the units that mean the same in the letters and the figures shift
EitherUnits == {0, 2, 4, 8}

\* the shift the first mapped byte of s that needs one needs, or 0
RECURSIVE FirstShiftNeeded(_, _)
FirstShiftNeeded(s, i) ==
    IF i > Len(s) THEN 0
    ELSE LET char == asc2tty[(s[i] % 128) + 1]
         IN  IF char = INVC \/ (char \div 64) % 2 = 1 THEN FirstShiftNeeded(s, i + 1)
             ELSE IF char >= 128 THEN FIGS ELSE LTRS

\* the elements of a sequence
Range(q) == { q[i] : i \in 1..Len(q) }

\* the ten candidate wheel sizes
Candidates == {73, 71, 69, 67, 65, 64, 61, 59, 53, 47}

-----------------------------------------------------------------------------
(* C1 (SpecStream).  Round trip: for key material with five X patterns,    *)
(* five S patterns and ten in-range positions, and a sequence of units in  *)
(* 0..31, decrypt() on a fresh engine built from the same key returns, of  *)
(* what encrypt() returned, exactly the units that were encrypted.         *)
C1_RoundTrip ==
    (decrypted.done /\ InRange(plain))
        => (last.ret.exc = "none" /\ Len(cipher) = Len(plain) /\ decrypted.out = plain)

\* three units, the wheels of two teeth wrapped round, the ciphertext
\* unlike the plaintext, and the plaintext back
C1_Witness ==
    /\ decrypted.done
    /\ Len(plain) = 3
    /\ InRange(plain)
    /\ key.indicator # Zero10
    /\ \A i \in 1..3 : cipher[i] # plain[i]
    /\ decrypted.out = plain

(* C2 (SpecSwap).  Each of the five swap steps, applied twice to the same  *)
(* 5-bit value with its condition true, gives the value back.              *)
C2_Involution == (bits.times = 2) => (bits.cur = bits.orig)

\* the step of bit 4 applied twice to a value whose end bits differ
C2_Witness ==
    /\ bits.times = 2
    /\ bits.k = 4
    /\ bits.orig[1] # bits.orig[5]
    /\ bits.cur = bits.orig

(* C3 (Spec).  Period: with valid key material, an engine whose banks have *)
(* advanced exactly lcm(lengths of the X wheels) times has every X wheel   *)
(* at its initial position, likewise the S bank, and after                 *)
(* lcm(all ten lengths) units both banks are in their initial state.       *)
C3_Period ==
    \A e \in EngineIds :
        (IsValidKey(key) /\ eng[e].built) =>
            /\ (steps[e] = PeriodX => AtStartX(e))
            /\ (steps[e] = PeriodS => AtStartS(e))
            /\ (steps[e] = PeriodAll => (AtStartX(e) /\ AtStartS(e)))

\* six units through an engine whose X bank has period 2 and whose S bank
\* has period 3, started away from position 0
C3_Witness ==
    /\ IsValidKey(key)
    /\ key.indicator # Zero10
    /\ PeriodX = 2 /\ PeriodS = 3
    /\ eng[1].built
    /\ steps[1] = PeriodAll
    /\ AtStartX(1) /\ AtStartS(1)

(* C4 (SpecUnit).  Identity case: when the S-bank value is 0,              *)
(* encrypt_char(c) returns c XOR x for every c in 0..31, x the X-bank      *)
(* value, and decrypt_char at the same wheel state returns c for that      *)
(* result.                                                                 *)
C4_Identity ==
    (last.s = 0 /\ Len(plain) = 1 /\ InRange(plain)) =>
        /\ cipher = <<BitXor5(plain[1], last.x)>>
        /\ (last.op = "encrypt_char" => last.ret = Returned(cipher[1]))
        /\ (last.op = "decrypt_char" => (last.c = cipher[1] /\ last.ret = Returned(plain[1])))

\* a unit that the X bank changes, S-bank value 0, decrypted again
C4_Witness ==
    /\ last.op = "decrypt_char"
    /\ last.s = 0
    /\ last.x = 21
    /\ plain = <<9>>
    /\ cipher = <<28>>
    /\ decrypted = [done |-> TRUE, out |-> <<9>>]

(* C5 (SpecCodec), as claimed.  Codec round trip: decoding the encoding   *)
(* of a byte sequence gives uppercase(b) for each byte b the 128-entry     *)
(* table maps, in order, and nothing for the other bytes.                  *)
C5_RoundTripUppercase ==
    ascii.done => ascii.out = MapMapped([b \in 0..127 |-> Upper(b)], text, Len(text))

(* C5 (SpecCodec), as amended.  Each mapped byte comes back as its         *)
(* uppercase, except that "<", "[", "{" come back as "(", that ">", "]",   *)
(* "}" come back as ")", and that "~" comes back as BEL (7); a byte is     *)
(* looked up by its low seven bits; unmapped bytes contribute nothing.     *)
C5_RoundTripCanonical ==
    ascii.done => ascii.out = MapMapped([b \in 0..127 |-> Canonical(b)], text, Len(text))

\* C5: a lower-case letter, a figure and a bracket, encoded and decoded
C5_Witness ==
    /\ ascii.done
    /\ text = <<97, 53, 60>>
    /\ tty.out = <<LTRS, 24, FIGS, 1, 30>>
    /\ ascii.out = <<65, 53, 40>>

(* C6 (Spec).  encrypt_char and decrypt_char given a unit outside 0..31    *)
(* raise an error instead of returning a value.                            *)
C6_RejectsOutOfRange ==
    (last.op \in {"encrypt_char", "decrypt_char"} /\ last.c \notin 0..31)
        => last.ret.exc # "none"

(* C7 (Spec).  With structurally invalid key material (a bank without 5    *)
(* patterns, an indicator without 10 entries, an entry outside             *)
(* [0, length)) no engine is ever constructed.                             *)
C7_NoEngineFromInvalidKey ==
    ~IsValidKey(key) => \A e \in EngineIds : ~eng[e].built

(* C8 (SpecCodec).  ascii2tty assumes nothing of the reader's shift: the   *)
(* first unit of its output that is not valid in either shift is the       *)
(* shift unit (letters 31 or figures 27) that the first such byte needs.   *)
C8_ShiftBeforeFirstShiftedUnit ==
    tty.done =>
        \A j \in 1..Len(tty.out) :
            (tty.out[j] \notin EitherUnits /\ \A i \in 1..(j - 1) : tty.out[i] \in EitherUnits)
                => tty.out[j] = FirstShiftNeeded(text, 1)

(* C9 (SpecKeygen).  Key generation yields X sizes and S sizes that       *)
(* together are the ten candidate sizes: 5 in each bank, none twice, none  *)
(* left out, whatever the shuffles gave.                                   *)
C9_PartitionOfCandidates ==
    kg.done =>
        /\ Len(kg.X_sizes) = 5
        /\ Len(kg.S_sizes) = 5
        /\ Cardinality(Range(kg.X_sizes)) = 5
        /\ Cardinality(Range(kg.S_sizes)) = 5
        /\ Range(kg.X_sizes) \cap Range(kg.S_sizes) = {}
        /\ Range(kg.X_sizes) \cup Range(kg.S_sizes) = Candidates

\* C9: a key whose split is not the one of the unshuffled list
C9_Witness ==
    /\ kg.done
    /\ 73 \in Range(kg.X_sizes)
    /\ 47 \in Range(kg.S_sizes)
    /\ kg.X_sizes[1] # 47

(* C10 (Spec).  Ownership: a call made on one engine leaves the wheels of  *)
(* every other engine as they were, and no step changes the key material.  *)
C10_Ownership ==
    [][ /\ key' = key
        /\ \A e \in EngineIds : (last'.e # e) => (eng'[e] = eng[e]) ]_vars

\* engine 1 has advanced off its initial positions while engine 2, built
\* from the same key, is still where it was built
C10_Witness ==
    /\ eng[1].built /\ eng[2].built
    /\ steps[1] > 0 /\ steps[2] = 0
    /\ eng[2] = SFM_T52a(key.X_wheels, key.S_wheels, key.indicator)
    /\ eng[1] # eng[2]

-----------------------------------------------------------------------------
\* the bits p0..p4 of a 5-bit value, p0 the most significant
Bits5(r) == [i \in 0..4 |-> ShiftBit(r, 4 - i)]

\* p with the bits at i and j exchanged when bit k of s is set
SwapIf(s, k, p, i, j) ==
    IF ShiftBit(s, k) = 1 THEN [p EXCEPT ![i] = p[j], ![j] = p[i]] ELSE p

\* section 4.2: r = plain XOR x, then for the set bits of s, bit 4 first, the
\* swaps (p0,p4), (p3,p4), (p2,p3), (p1,p2), (p0,p1)
EncryptUnit(plain_unit, x, s) ==
    LET p == SwapIf(s, 0, SwapIf(s, 1, SwapIf(s, 2, SwapIf(s, 3,
                 SwapIf(s, 4, Bits5(BitXor5(plain_unit, x)), 0, 4), 3, 4), 2, 3), 1, 2), 0, 1)
    IN  16 * p[0] + 8 * p[1] + 4 * p[2] + 2 * p[3] + p[4]

(* C11 (SpecUnit).  For every wheel state and every plain unit in 0..31,   *)
(* encrypt_char returns plain XOR x with the swaps (p0,p4), (p3,p4),       *)
(* (p2,p3), (p1,p2), (p0,p1) applied for the set bits 4, 3, 2, 1, 0 of s   *)
(* in that order, x and s being the bank values before the wheels advance. *)
C11_SwapNetwork ==
    (last.op = "encrypt_char" /\ last.c \in 0..31) =>
        last.ret = Returned(EncryptUnit(last.c, last.x, last.s))

\* C11: a unit through wheels that move, the values the call read no longer
\* those of the bank, more than one swap taken, and the result not the XOR
C11_Witness ==
    /\ last.op = "encrypt_char"
    /\ last.c \in 0..31
    /\ last.s \notin {-1, 0, 1, 2, 4, 8, 16}
    /\ ReadVal(eng[1].X_wheels) # last.x
    /\ ReadVal(eng[1].S_wheels) # last.s
    /\ last.ret.exc = "none"
    /\ last.ret.val # BitXor5(last.c, last.x)

\* wheel i of a bank built from patterns and positions, n units later
StateAfter(patterns, positions, i, n) == (positions[i] + n) % Len(patterns[i])

\* every wheel of engine e is n positions past its indicator, modulo its length
LockStepAt(e, n) ==
    /\ \A i \in 1..5 :
           eng[e].X_wheels[i].state = StateAfter(key.X_wheels, SubSeq(key.indicator, 1, 5), i, n)
    /\ \A i \in 1..5 :
           eng[e].S_wheels[i].state = StateAfter(key.S_wheels, SubSeq(key.indicator, 6, 10), i, n)

\* a call of encrypt_char or decrypt_char with a unit in 0..31, on an engine
\* built from valid key material, returns and has moved each of the ten
\* wheels of that engine by one position modulo its length
UnitStep ==
    (IsValidKey(key) /\ last'.op \in {"encrypt_char", "decrypt_char"} /\ last'.c \in 0..31) =>
        LET e == last'.e
        IN  /\ last'.ret.exc = "none"
            /\ steps'[e] = steps[e] + 1
            /\ \A i \in 1..5 :
                   /\ eng'[e].X_wheels[i].state
                          = (eng[e].X_wheels[i].state + 1) % Len(key.X_wheels[i])
                   /\ eng'[e].S_wheels[i].state
                          = (eng[e].S_wheels[i].state + 1) % Len(key.S_wheels[i])

(* C12 (Spec).  Lock-step, data-independent stepping: every encrypt_char    *)
(* and decrypt_char of a unit in 0..31 advances each of the ten wheels by  *)
(* one position modulo its length, whatever the unit and the wheel bits,   *)
(* and after n advances wheel i is at (initial_i + n) mod length_i.        *)
C12_LockStep ==
    /\ [](\A e \in EngineIds : (IsValidKey(key) /\ eng[e].built) => LockStepAt(e, steps[e]))
    /\ [][UnitStep]_vars

\* C12: four units, the last one decrypted, through wheels of 2 and 3 teeth
\* started off position 0, so every wheel has wrapped
C12_Witness ==
    /\ IsValidKey(key)
    /\ key.indicator # Zero10
    /\ eng[1].built
    /\ steps[1] = 4
    /\ last.op = "decrypt_char" /\ last.e = 1 /\ last.c \in 0..31
    /\ LockStepAt(1, 4)
    /\ \E i \in 1..5 : eng[1].X_wheels[i].state < key.indicator[i]

\* a bank holds exactly 5 wheels, each with the pattern and the length the
\* key gave it and a position inside the pattern
BankAsBuilt(wheels, patterns) ==
    /\ Len(wheels) = 5
    /\ \A i \in 1..5 :
           /\ wheels[i].wheel_data = patterns[i]
           /\ wheels[i].wheel_size = Len(patterns[i])
           /\ wheels[i].wheel_size >= 1
           /\ wheels[i].state \in 0..(wheels[i].wheel_size - 1)

(* C13 (Spec).  For an engine constructed with every initial position in   *)
(* [0, length), every state reachable by encrypt_char and decrypt_char     *)
(* calls has every wheel position in [0, length), 5 wheels in each bank,   *)
(* and every pattern and length as at construction.                        *)
C13_WheelsAsBuilt ==
    \A e \in EngineIds :
        (IsValidKey(key) /\ eng[e].built) =>
            /\ BankAsBuilt(eng[e].X_wheels, key.X_wheels)
            /\ BankAsBuilt(eng[e].S_wheels, key.S_wheels)

\* C13: an engine that has taken units in and out of range, by both
\* operations, far enough for every wheel to have wrapped
C13_Witness ==
    /\ IsValidKey(key)
    /\ eng[2].built
    /\ steps[2] >= 3
    /\ last.e = 2
    /\ last.op = "encrypt_char"
    /\ last.c = 32
    /\ \E i \in 1..5 : eng[2].S_wheels[i].wheel_size = 3 /\ eng[2].S_wheels[i].state = 2
    /\ BankAsBuilt(eng[2].S_wheels, key.S_wheels)

\* the bank the last get_val() was called on
BankRead ==
    IF last.op = "X_wheels.get_val" THEN eng[last.e].X_wheels ELSE eng[last.e].S_wheels

\* wheel[i].pattern[wheel[i].position], i counted from 0
CurrentBit(wheels, i) == wheels[i + 1].wheel_data[wheels[i + 1].state + 1]

(* C14 (SpecBank).  WheelBank.get_val() returns an integer in 0..31 whose  *)
(* bit i (0 the least significant) is the current bit of wheel i, for      *)
(* i = 0..4, and reading it changes no wheel position.                     *)
C14_BankValue ==
    /\ []((IsValidKey(key) /\ last.op \in {"X_wheels.get_val", "S_wheels.get_val"}) =>
             /\ last.ret.exc = "none"
             /\ last.ret.val \in 0..31
             /\ \A i \in 0..4 : ShiftBit(last.ret.val, i) = CurrentBit(BankRead, i))
    /\ [][last'.op \in {"X_wheels.get_val", "S_wheels.get_val"} => eng' = eng]_vars

\* C14: a bank read after its wheels have moved, whose value is not the
\* same read from either end
C14_Witness ==
    /\ IsValidKey(key)
    /\ last.op = "X_wheels.get_val"
    /\ steps[last.e] = 3
    /\ last.ret.exc = "none"
    /\ CurrentBit(BankRead, 0) = 1
    /\ CurrentBit(BankRead, 4) = 0
    /\ last.ret.val % 2 = 1 /\ last.ret.val < 16

\* the engine built from the key, before any unit
Fresh == SFM_T52a(key.X_wheels, key.S_wheels, key.indicator)

\* an engine after n runs of advance()
RECURSIVE AdvanceN(_, _)
AdvanceN(e, n) == IF n = 0 THEN e ELSE SFM_advance(AdvanceN(e, n - 1))

(* C15 (SpecStream).  encrypt() and decrypt() take the units left to       *)
(* right, one call of the per-unit operation each, threading the wheel     *)
(* state: what successive encrypt() calls on one engine returned is what   *)
(* one encrypt() of the concatenated input returns, output unit k is the   *)
(* per-unit operation on input unit k at the wheel state after k - 1       *)
(* units, and the output is as long as the input.                          *)
C15_StreamThreading ==
    /\ Len(cipher) = Len(plain)
    /\ cipher = encrypt(Fresh, plain).out
    /\ \A k \in 1..Len(plain) :
           Returned(cipher[k]) = encrypt_char(AdvanceN(Fresh, k - 1), plain[k]).ret
    /\ eng[1] = AdvanceN(Fresh, Len(plain))
    /\ decrypted.done =>
           /\ Len(decrypted.out) = Len(cipher)
           /\ \A k \in 1..Len(cipher) :
                  Returned(decrypted.out[k]) = decrypt_char(AdvanceN(Fresh, k - 1), cipher[k]).ret
           /\ eng[2] = AdvanceN(Fresh, Len(cipher))

\* C15: one unit by a first encrypt() and two by a second, the second
\* unit not what an engine at its initial positions makes of it
C15_Witness ==
    /\ last.op = "encrypt"
    /\ last.ret = Returned(2)
    /\ Len(plain) = 3
    /\ Len(cipher) = 3
    /\ Returned(cipher[2]) # encrypt_char(Fresh, plain[2]).ret
    /\ Returned(cipher[3]) # encrypt_char(AdvanceN(Fresh, 1), plain[3]).ret

\* the table entries of the mapped bytes of the input, in order
Entries(s) == MapMapped([b \in 0..127 |-> asc2tty[b + 1]], s, Len(s))

IsShift(unit) == unit \in {LTRS, FIGS}

\* the data units among the first j units of a tape
DataCount(out, j) == Cardinality({ i \in 1..j : ~IsShift(out[i]) })

\* a reader that starts in letters and follows the shift units of the tape
\* is in figures when it comes to unit j
ReaderInFigs(out, j) ==
    LET prior == { i \in 1..(j - 1) : IsShift(out[i]) }
    IN  prior # {} /\ out[CHOOSE i \in prior : \A h \in prior : h <= i] = FIGS

(* C16 (SpecCodec).  In the output of ascii2tty, the data units are those  *)
(* of the mapped bytes in order, and a reader that starts in letters and   *)
(* follows the shift units is in figures at every unit that needs figures  *)
(* and in letters at every unit that needs letters.                        *)
C16_ReaderInRequiredShift ==
    tty.done =>
        /\ DataCount(tty.out, Len(tty.out)) = Len(Entries(text))
        /\ \A j \in 1..Len(tty.out) :
               ~IsShift(tty.out[j]) =>
                   LET char == Entries(text)[DataCount(tty.out, j)]
                   IN  /\ tty.out[j] = char % 32
                       /\ (char \div 64) % 2 = 0 => (ReaderInFigs(tty.out, j) <=> char >= 128)

\* C16: a figure, a letter and a figure again, each behind its shift unit
C16_Witness ==
    /\ tty.done
    /\ text = <<53, 65, 53>>
    /\ tty.out = <<FIGS, 1, LTRS, 24, FIGS, 1>>
    /\ ReaderInFigs(tty.out, 2) /\ ~ReaderInFigs(tty.out, 4) /\ ReaderInFigs(tty.out, 6)

\* the input with its unmappable bytes removed
Encodable(s) == SelectSeq(s, Mapped)

(* C17 (SpecCodec).  Unmappable bytes are dropped without any other effect *)
(* on ascii2tty: for every byte sequence s, ascii2tty(s) is ascii2tty of s *)
(* with its unmappable bytes removed.                                      *)
C17_UnmappableHasNoEffect ==
    tty.done => tty.out = ascii2tty(Encodable(text))

(* C18 (SpecTape).  tty2ascii starts in letters; a unit 31 sets the state  *)
(* to letters and a unit 27 to figures, both emitting nothing; every other *)
(* unit of 0..31 emits one byte, from the letters table or the figures     *)
(* table by the state the shift units before it left, so the output is as  *)
(* long as the tape has units that are not shifts.                         *)
C18_DecodeByShiftState ==
    (ascii.done /\ InRange(tty.out)) =>
        /\ Len(ascii.out) = DataCount(tty.out, Len(tty.out))
        /\ \A j \in 1..Len(tty.out) :
               ~IsShift(tty.out[j]) =>
                   ascii.out[DataCount(tty.out, j)] =
                       IF ReaderInFigs(tty.out, j)
                       THEN tty_figs2asc[tty.out[j] + 1]
                       ELSE tty_ltrs2asc[tty.out[j] + 1]

\* C18: a unit read in letters, a figures shift, the same unit read in
\* figures
C18_Witness ==
    /\ ascii.done
    /\ tty.out = <<1, FIGS, 1>>
    /\ ascii.out = <<84, 53>>

\* the sum of the elements of a sequence of numbers
RECURSIVE Sum(_, _)
Sum(q, n) == IF n = 0 THEN 0 ELSE Sum(q, n - 1) + q[n]

\* the bits key generation takes from its random buffer: the patterns of
\* the ten wheels and ten indicator draws
BitsTaken == Sum(kg.X_sizes, 5) + Sum(kg.S_sizes, 5) + 10 * IndicatorBits

(* C19 (SpecKeygen).  Key generation never exhausts its 700-bit random     *)
(* buffer: every pattern has as many bits as its wheel length, every       *)
(* indicator comes from a full 7-bit draw, and indicator[i] is in          *)
(* [0, length_i), X wheels at 0..4 and S wheels at 5..9.                   *)
C19_BufferSuffices ==
    kg.done =>
        /\ kg.exc = "none"
        /\ Len(kg.X_wheels) = 5 /\ Len(kg.S_wheels) = 5 /\ Len(kg.indicator) = 10
        /\ \A i \in 1..5 :
               /\ Len(kg.X_wheels[i]) = kg.X_sizes[i]
               /\ Len(kg.S_wheels[i]) = kg.S_sizes[i]
               /\ kg.indicator[i] \in 0..(kg.X_sizes[i] - 1)
               /\ kg.indicator[i + 5] \in 0..(kg.S_sizes[i] - 1)
        /\ BitsTaken <= RandomBits
        /\ kg.left = RandomBits - BitsTaken

\* C19: a key from a buffer of ones after a shuffle, the draws of 127
\* reduced by the wheel lengths, one bit of the buffer left over
C19_Witness ==
    /\ kg.done
    /\ kg.X_sizes # <<47, 59, 64, 67, 71>>
    /\ \A i \in 1..5 : kg.indicator[i] = 127 % kg.X_sizes[i]
    /\ \A i \in 1..5 : kg.indicator[i + 5] = 127 % kg.S_sizes[i]
    /\ kg.S_wheels[5] = [i \in 1..kg.S_sizes[5] |-> 1]
    /\ kg.left = 1

\* the number of set bits of a 5-bit value
PopCount(v) == ShiftBit(v, 0) + ShiftBit(v, 1) + ShiftBit(v, 2) + ShiftBit(v, 3) + ShiftBit(v, 4)

(* C20 (SpecUnit).  For every wheel state and every unit in 0..31,         *)
(* encrypt_char returns a value in 0..31 with as many set bits as          *)
(* (unit XOR x), and at one wheel state no other unit of 0..31 gives the   *)
(* same value: encrypt_char is a bijection on 0..31.                       *)
C20_BitPermutation ==
    (last.op = "encrypt_char" /\ last.c \in 0..31) =>
        /\ last.ret.exc = "none"
        /\ last.ret.val \in 0..31
        /\ PopCount(last.ret.val) = PopCount(BitXor5(last.c, last.x))
        /\ \A d \in (0..31) \ {last.c} : encrypt_char(Fresh, d).ret # last.ret

\* C20: every swap taken on a unit with two bits set after the XOR
C20_Witness ==
    /\ last.op = "encrypt_char"
    /\ last.c = 9
    /\ last.x = 3
    /\ last.s = 31
    /\ last.ret.exc = "none"
    /\ last.ret.val # BitXor5(9, 3)
    /\ PopCount(last.ret.val) = 2

=============================================================================
